---- MODULE Spec2Model ----
(***************************************************************************)
(* Polynomial arithmetic over Z/p and Rabin's irreducibility test, as      *)
(* implemented by class Poly in src/lab2.cpp.                              *)
(*                                                                         *)
(* A polynomial is modelled by its coefficient vector Poly::a, a sequence  *)
(* whose element i+1 is the coefficient of x^i; the modulus Poly::p is     *)
(* passed alongside, since every operation of the class uses the modulus   *)
(* of its left operand for both operands.                                  *)
(***************************************************************************)
EXTENDS Integers, Sequences, FiniteSets, TLC

\* ------------------------------------------------------------------ bounds
MaxMod == 3         \* moduli 2..MaxMod
MaxDegA == 2        \* degree bound of the left operand of a binary operation
MaxDegB == 1        \* degree bound of the right operand of a binary operation
MaxDegF == 3        \* degree bound of the modulus polynomial f, for p > 2
MaxDegBinary == 6   \* degree bound of the modulus polynomial f, for p = 2
MaxK == 6           \* exponent bound of PowX
MaxRawLen == 2      \* length bound of a raw coefficient vector
MaxInvMod == 9      \* moduli 2..MaxInvMod of a direct call of InvMod
MaxDivMod == 4      \* moduli 2..MaxDivMod of a division over any modulus
MaxInvDeg == 1      \* degree bound of both operands of such a division

\* ------------------------------------------------------- C++ integer ops
\* operator % of C++ truncates towards zero: the sign follows the dividend.
CRem(x, m) == IF x >= 0 THEN x % m ELSE -((-x) % m)

\* operator / of C++ on ints truncates towards zero.
CDiv(x, m) ==
    LET ax == IF x >= 0 THEN x ELSE -x
        am == IF m >= 0 THEN m ELSE -m
    IN  IF (x >= 0) = (m >= 0) THEN ax \div am ELSE -(ax \div am)

\* The one value of a singleton set: The({e(v) : v \in {x}}) is e(x), with x
\* computed once however often e uses it.
The(S) == CHOOSE x \in S : TRUE

\* ------------------------------------------------------------- Poly core
Zero == <<0>>

IsZero(a) == Len(a) = 1 /\ a[1] = 0

Degree(a) == Len(a) - 1

\* The first loop of Normalize, on the size n of the vector: pop_back while
\* more than one coefficient is left and the last one is 0 modulo p.
RECURSIVE StripBack(_, _, _)
StripBack(a, n, p) ==
    IF n > 1 /\ CRem(a[n], p) = 0 THEN StripBack(a, n - 1, p) ELSE n

\* A plausible slip: the last coefficient is compared with 0 itself.
RECURSIVE StripBackExactZero(_, _, _)
StripBackExactZero(a, n, p) ==
    IF n > 1 /\ a[n] = 0 THEN StripBackExactZero(a, n - 1, p) ELSE n

NormalizeExactZero(a, p) ==
    The({[i \in 1..StripBackExactZero(v, Len(v), p) |-> CRem(CRem(v[i], p) + p, p)] :
            v \in {a}})

\* Normalize: the vector left by the first loop, each coefficient reduced
\* by the second loop.
Normalize(a, p) ==
    The({[i \in 1..StripBack(v, Len(v), p) |-> CRem(CRem(v[i], p) + p, p)] :
            v \in {a}})

\* Poly(const std::vector<int>& v, int mod)
Construct(v, p) == Normalize(v, p)

\* std::vector::resize(n, 0) when n exceeds the size, else the vector itself.
PadTo(a, n) == IF n > Len(a) THEN [i \in 1..n |-> IF i <= Len(a) THEN a[i] ELSE 0] ELSE a

\* The loop of operator + on the resized copy r.
AddLoop(r, t, p) == [i \in 1..Len(r) |-> IF i <= Len(t) THEN CRem(r[i] + t[i], p) ELSE r[i]]

\* A plausible slip: the left operand is not resized, the excess of t is lost.
AddNoResize(a, t, p) ==
    The({Normalize(AddLoop(u, v, p), p) : u \in {a}, v \in {t}})

\* operator +: r is the copy of the left operand u, v the right operand.
Add(a, t, p) ==
    The({Normalize(AddLoop(PadTo(u, Len(v)), v, p), p) : u \in {a}, v \in {t}})

\* The loop of operator - on the resized copy r.
SubtractLoop(r, t, p) ==
    [i \in 1..Len(r) |-> IF i <= Len(t) THEN CRem(r[i] - t[i] + p, p) ELSE r[i]]

\* operator -: r is the copy of the left operand u, v the right operand.
Subtract(a, t, p) ==
    The({Normalize(SubtractLoop(PadTo(u, Len(v)), v, p), p) : u \in {a}, v \in {t}})

\* The double loop of operator * as seen from the cell c = i + j of r: the
\* cell starts at 0 and takes (r[c] + a[i] * t[c - i]) % p for i = 0, 1, ...
\* in that order. c and i are the 0-based indices of the source.
RECURSIVE MulCell(_, _, _, _, _, _)
MulCell(a, t, c, i, acc, p) ==
    IF i >= Len(a) THEN acc
    ELSE MulCell(a, t, c, i + 1,
                 IF c - i >= 0 /\ c - i < Len(t)
                 THEN CRem(acc + a[i + 1] * t[c - i + 1], p)
                 ELSE acc,
                 p)

\* Defined when Len(a) + Len(t) >= 1; two empty vectors make the size_t
\* length wrap around, a case no operation below reaches.
Multiply(a, t, p) ==
    The({Normalize([c \in 1..(Len(u) + Len(v) - 1) |-> MulCell(u, v, c - 1, 0, 0, p)], p) :
            u \in {a}, v \in {t}})

\* ------------------------------------------------------ modular inverse
\* The loop of InvMod on (r0, r1, s0, s1); yields the final <<r0, s0>>.
\* n is the state after one iteration, the two swaps included.
RECURSIVE InvLoop(_, _, _, _)
InvLoop(r0, r1, s0, s1) ==
    IF r1 # 0
    THEN The({InvLoop(n[1], n[2], n[3], n[4]) :
                n \in {<<r1, r0 - CDiv(r0, r1) * r1, s1, s0 - CDiv(r0, r1) * s1>>}})
    ELSE <<r0, s0>>

\* A plausible slip: s0 is returned without the reduction into [0, p-1].
InvResultNoReduce(e, p) ==
    IF e[1] # 1
    THEN [ok |-> FALSE, val |-> 0]
    ELSE [ok |-> TRUE, val |-> e[2]]

\* The end of InvMod on the final <<r0, s0>>; ok = FALSE stands for the
\* throw of "element is not invertible".
InvResult(e, p) ==
    IF e[1] # 1
    THEN [ok |-> FALSE, val |-> 0]
    ELSE [ok |-> TRUE, val |-> CRem(CRem(e[2], p) + p, p)]

InvMod(a, p) == InvResult(InvLoop(a, p, 1, 0), p)

\* ---------------------------------------------------- Euclidean division
\* The two exceptions of the class, and a normal return.
NoError == "none"
DivisionByZero == "division by zero polynomial"
NotInvertible == "element is not invertible"

Thrown(e) == [err |-> e, q |-> <<>>, r |-> <<>>]

\* Q.a.assign(std::max(0, Degree() - d.Degree() + 1), 0)
QInit(A, d) ==
    [i \in 1..(IF Degree(A) - Degree(d) + 1 > 0 THEN Degree(A) - Degree(d) + 1 ELSE 0) |-> 0]

\* A plausible slip: the loop does not stop at the zero remainder.
DivCondNoZeroCheck(R, d) == Degree(R) >= Degree(d)

\* Condition of the while loop of DivMod.
DivCond(R, d) == Degree(R) >= Degree(d) /\ ~IsZero(R)

\* The vector sub of one iteration, for the given coef and shift.
SubVector(d, coef, shift, p) ==
    [i \in 1..(shift + Len(d)) |-> IF i <= shift THEN 0 ELSE CRem(coef * d[i - shift], p)]

\* One iteration of the while loop of DivMod: the new R and Q.
DivStepWith(R, Q, d, coef, shift, p) ==
    [R |-> Subtract(R, Construct(SubVector(d, coef, shift, p), p), p),
     Q |-> [Q EXCEPT ![shift + 1] = coef]]

DivStep(R, Q, d, invLead, p) ==
    DivStepWith(R, Q, d, CRem(R[Len(R)] * invLead, p), Degree(R) - Degree(d), p)

\* The while loop of DivMod on st = [R, Q], then the two Normalize calls.
RECURSIVE DivLoop(_, _, _, _)
DivLoop(st, d, invLead, p) ==
    IF DivCond(st.R, d)
    THEN DivLoop(DivStep(st.R, st.Q, d, invLead, p), d, invLead, p)
    ELSE [err |-> NoError, q |-> Normalize(st.Q, p), r |-> Normalize(st.R, p)]

\* DivMod from line 94 on, inv being what InvMod returned or threw.
DivWithInverse(A, d, inv, p) ==
    IF ~inv.ok
    THEN Thrown(NotInvertible)
    ELSE DivLoop([R |-> A, Q |-> QInit(A, d)], d, inv.val, p)

\* A plausible slip: the inverse is requested before the zero-divisor check.
DivZeroCheckLate(A, d, inv, p) ==
    IF ~inv.ok
    THEN Thrown(NotInvertible)
    ELSE IF Degree(d) = 0 /\ d[1] = 0
    THEN Thrown(DivisionByZero)
    ELSE DivLoop([R |-> A, Q |-> QInit(A, d)], d, inv.val, p)

DivModInverseFirst(A, d, p) == DivZeroCheckLate(A, d, InvMod(d[Len(d)], p), p)

\* A plausible slip: the loop is skipped unless A is strictly longer than d.
DivModStrict(A, d, p) ==
    IF Degree(d) = 0 /\ d[1] = 0
    THEN Thrown(DivisionByZero)
    ELSE IF Degree(A) > Degree(d)
    THEN DivWithInverse(A, d, InvMod(d[Len(d)], p), p)
    ELSE [err |-> NoError, q |-> Normalize(QInit(A, d), p), r |-> Normalize(A, p)]

\* d is a non-empty vector (every divisor the program passes is one).
DivMod(A, d, p) ==
    IF Degree(d) = 0 /\ d[1] = 0
    THEN Thrown(DivisionByZero)
    ELSE DivWithInverse(A, d, InvMod(d[Len(d)], p), p)

\* -------------------------------------------------------------------- GCD
RECURSIVE GcdLoop(_, _, _)

\* The body of the while loop of GCD once A.DivMod(B) has returned dm.
GcdStep(B, dm, p) ==
    IF dm.err # NoError
    THEN [err |-> dm.err, r |-> <<>>]
    ELSE GcdLoop(B, dm.r, p)

GcdLoop(A, B, p) ==
    IF ~IsZero(B)
    THEN GcdStep(B, DivMod(A, B, p), p)
    ELSE [err |-> NoError, r |-> Normalize(A, p)]

\* A plausible slip: the loop stops one division early, at a constant B.
RECURSIVE GCDEarly(_, _, _)
GCDEarly(A, B, p) ==
    IF ~IsZero(B) /\ Degree(B) > 0
    THEN GCDEarly(B, DivMod(A, B, p).r, p)
    ELSE [err |-> NoError, r |-> Normalize(A, p)]

GCD(A, B, p) == GcdLoop(A, B, p)

\* ------------------------------------------------------------ x^k mod f
\* Poly({0,1}, p) and Poly({1}, p)
PolyX(p) == Construct(<<0, 1>>, p)
PolyOne(p) == Construct(<<1>>, p)

\* End of one iteration of PowX: r = (r * r).DivMod(mod).second, returned
\* as m2, then k >>= 1.
PowShift(k, res, m2) ==
    IF m2.err # NoError
    THEN [err |-> m2.err, k |-> k, r |-> <<>>, res |-> res]
    ELSE [err |-> NoError, k |-> k \div 2, r |-> m2.r, res |-> res]

\* One iteration of PowX after the if (k & 1) statement, which left m1.
PowSquare(k, r, m1, f, p) ==
    IF m1.err # NoError
    THEN [err |-> m1.err, k |-> k, r |-> r, res |-> <<>>]
    ELSE PowShift(k, m1.r, DivMod(Multiply(r, r, p), f, p))

\* One iteration of the while loop of PowX on (k, r, res).
PowStep(k, r, res, f, p) ==
    PowSquare(k, r,
              IF k % 2 = 1 THEN DivMod(Multiply(res, r, p), f, p)
                           ELSE [err |-> NoError, q |-> <<>>, r |-> res],
              f, p)

\* The while loop of PowX on st = [err, k, r, res].
RECURSIVE PowLoop(_, _, _)
PowLoop(st, f, p) ==
    IF st.err # NoError THEN [err |-> st.err, r |-> <<>>]
    ELSE IF st.k > 0 THEN PowLoop(PowStep(st.k, st.r, st.res, f, p), f, p)
    ELSE [err |-> NoError, r |-> st.res]

\* A plausible slip: the result starts at x instead of 1.
PowXFromX(k, f, p) ==
    PowLoop([err |-> NoError, k |-> k, r |-> PolyX(p), res |-> PolyX(p)], f, p)

PowX(k, f, p) ==
    PowLoop([err |-> NoError, k |-> k, r |-> PolyX(p), res |-> PolyOne(p)], f, p)

\* ------------------------------------------------------- integer helpers
\* PowInt(a, b) for b >= 0; the bounds keep the product far below 2^31.
RECURSIVE PowInt(_, _)
PowInt(a, b) == IF b = 0 THEN 1 ELSE a * PowInt(a, b - 1)

\* while (n % i == 0) n /= i
RECURSIVE StripFactor(_, _)
StripFactor(n, i) == IF n % i = 0 THEN StripFactor(n \div i, i) ELSE n

\* The for loop of PrimeDivisors on (n, i, d), then the trailing push_back.
RECURSIVE PrimeDivLoop(_, _, _)
PrimeDivLoop(n, i, d) ==
    IF i * i <= n
    THEN IF n % i = 0
         THEN PrimeDivLoop(StripFactor(n, i), i + 1, Append(d, i))
         ELSE PrimeDivLoop(n, i + 1, d)
    ELSE IF n > 1 THEN Append(d, n) ELSE d

PrimeDivisors(n) == PrimeDivLoop(n, 2, <<>>)

\* ---------------------------------------------------- irreducibility test
Verdict(err, b) == [err |-> err, b |-> b]

\* PowX(pw, f) - Poly({0,1}, p), px being what PowX returned or threw.
MinusX(px, p) ==
    IF px.err # NoError
    THEN [err |-> px.err, r |-> <<>>]
    ELSE [err |-> NoError, r |-> Subtract(px.r, PolyX(p), p)]

\* GCD(f, h), h being the difference above or the error thrown before it.
GcdWithF(f, h, p) ==
    IF h.err # NoError THEN [err |-> h.err, r |-> <<>>] ELSE GCD(f, h.r, p)

RECURSIVE DivisorsLoop(_, _, _, _)

\* if (GCD(f, h).Degree() > 0) return false, g being what GCD returned.
DivisorCheck(f, p, n, divs, g) ==
    IF g.err # NoError THEN Verdict(g.err, FALSE)
    ELSE IF Degree(g.r) > 0 THEN Verdict(NoError, FALSE)
    ELSE DivisorsLoop(f, p, n, Tail(divs))

\* The for loop of IsIrreducible over the prime divisors still to visit.
DivisorsLoop(f, p, n, divs) ==
    IF divs = <<>> THEN Verdict(NoError, TRUE)
    ELSE DivisorCheck(f, p, n, divs,
            GcdWithF(f, MinusX(PowX(PowInt(p, n \div Head(divs)), f, p), p), p))

\* IsIrreducible from line 159 on, test being the difference of line 158.
RabinTest(f, p, n, test) ==
    IF test.err # NoError THEN Verdict(test.err, FALSE)
    ELSE IF ~IsZero(test.r) THEN Verdict(NoError, FALSE)
    ELSE DivisorsLoop(f, p, n, PrimeDivisors(n))

IsIrreducible(f, p) ==
    IF Degree(f) <= 0 THEN Verdict(NoError, FALSE)
    ELSE RabinTest(f, p, Degree(f), MinusX(PowX(PowInt(p, Degree(f)), f, p), p))

\* ------------------------------------------------------------ input sets
RECURSIVE SeqsOfLen(_, _)
SeqsOfLen(n, S) ==
    IF n = 0 THEN {<<>>}
    ELSE {Append(s, x) : s \in SeqsOfLen(n - 1, S), x \in S}

\* The values of class Poly with modulus p and degree at most maxDeg that
\* the constructor can produce from a non-empty vector.
Polys(p, maxDeg) ==
    {s \in UNION {SeqsOfLen(n, 0..(p - 1)) : n \in 1..(maxDeg + 1)} :
        Len(s) = 1 \/ s[Len(s)] # 0}

\* Raw vectors handed to the constructor: negative coefficients, coefficients
\* >= p and multiples of p included; the empty vector included.
RawVectors(p) == UNION {SeqsOfLen(n, (-p)..(2 * p)) : n \in 0..MaxRawLen}

FDeg(p) == IF p = 2 THEN MaxDegBinary ELSE MaxDegF

Moduli == 2..MaxMod

IsPrime(n) == n >= 2 /\ \A d \in 2..(n - 1) : n % d # 0

\* ------------------------------------------------------------- references
\* Mathematical definitions the results are compared with; none of them
\* uses an operator of the class.
Coef(a, i) == IF i \in 1..Len(a) THEN a[i] ELSE 0

\* Canonical form: non-empty, coefficients in [0, p-1], no zero on top
\* unless the vector is <<0>>.
Canonical(a, p) ==
    /\ Len(a) >= 1
    /\ \A i \in 1..Len(a) : a[i] \in 0..(p - 1)
    /\ Len(a) = 1 \/ a[Len(a)] # 0

\* Reduce every coefficient modulo p, then strip the zero high-order ones.
RefReduce(a, p) == [i \in 1..Len(a) |-> a[i] % p]

RefTop(a) == IF \E i \in 2..Len(a) : a[i] # 0
             THEN CHOOSE n \in 2..Len(a) : a[n] # 0 /\ \A i \in (n + 1)..Len(a) : a[i] = 0
             ELSE IF Len(a) = 0 THEN 0 ELSE 1

RefNormalize(a, p) == SubSeq(RefReduce(a, p), 1, RefTop(RefReduce(a, p)))

RefLen(a, b) == IF Len(a) >= Len(b) THEN Len(a) ELSE Len(b)

RefAdd(a, b, p) == RefNormalize([i \in 1..RefLen(a, b) |-> Coef(a, i) + Coef(b, i)], p)

RefSub(a, b, p) == RefNormalize([i \in 1..RefLen(a, b) |-> Coef(a, i) - Coef(b, i)], p)

\* Coefficient n (1-based) of the product: the sum of a[i] * b[n + 1 - i].
RECURSIVE ConvSum(_, _, _, _)
ConvSum(a, b, n, i) ==
    IF i = 0 THEN 0 ELSE Coef(a, i) * Coef(b, n + 1 - i) + ConvSum(a, b, n, i - 1)

RefMul(a, b, p) ==
    RefNormalize([n \in 1..(Len(a) + Len(b) - 1) |-> ConvSum(a, b, n, n)], p)

\* f is a product of two polynomials of positive degree over Z/p.
Reducible(f, p) ==
    \E g \in Polys(p, Degree(f) - 1) :
        /\ Degree(g) >= 1
        /\ \E h \in Polys(p, Degree(f) - Degree(g)) :
              Degree(h) >= 1 /\ RefMul(g, h, p) = f

\* a * x reduced modulo f, for a of degree below Degree(f), p prime: one
\* multiple of f is taken off when the degree reaches Degree(f).
RefTimesXMod(a, f, p) ==
    IF IsZero(a) THEN a
    ELSE IF Len(a) < Degree(f) THEN <<0>> \o a
    ELSE RefSub(<<0>> \o a,
                [i \in 1..Len(f) |->
                    f[i] * (CHOOSE c \in 0..(p - 1) : (c * f[Len(f)]) % p = a[Len(a)])],
                p)

\* x^k modulo f: start from 1 and k times multiply by x and reduce.
RECURSIVE RefPowX(_, _, _)
RefPowX(n, f, p) == IF n = 0 THEN <<1>> ELSE RefTimesXMod(RefPowX(n - 1, f, p), f, p)

\* The greatest d dividing both a and n.
RefGcdInt(a, n) == CHOOSE d \in 1..n : /\ a % d = 0 /\ n % d = 0
                                       /\ \A e \in (d + 1)..n : a % e # 0 \/ n % e # 0

\* c divides a: the program's own division leaves the zero remainder.
Divides(c, a, p) == DivMod(a, c, p) = [err |-> NoError, q |-> DivMod(a, c, p).q, r |-> Zero]

\* ------------------------------------------------------------------ state
VARIABLES
    entry,  \* which entry point of the class the caller drives
    p,      \* the modulus shared by the operands
    A,      \* left operand / dividend / modulus polynomial f
    B,      \* right operand / divisor
    k,      \* exponent of PowX / argument a of InvMod
    raw,    \* raw coefficient vector given to the constructor
    op,     \* the operation performed last, "idle" before the first
    res,    \* what it returned or threw
    pc,      \* position of a call of IsIrreducible(A) executed step by step
    irr,     \* locals of IsIrreducible: n, divs, the index i into divs, phase
    pow,     \* locals of PowX: k, r, res
    gcd,     \* locals of GCD: A, B
    div,     \* locals of DivMod: d, Q, R, invLead, and where it returns to
    verdict  \* outcome of the call: "none", "true", "false" or what it threw

callVars == <<entry, p, A, B, k, raw, op, res>>

runVars == <<pc, irr, pow, gcd, div, verdict>>

vars == <<entry, p, A, B, k, raw, op, res, pc, irr, pow, gcd, div, verdict>>

inputs == <<entry, p, A, B, k, raw>>

Result(err, q, r, b, n) == [err |-> err, q |-> q, r |-> r, b |-> b, n |-> n]

NoResult == Result(NoError, <<>>, <<>>, FALSE, 0)

NoIrr == [n |-> 0, divs |-> <<>>, i |-> 0, phase |-> "none"]
NoPow == [k |-> 0, r |-> Zero, res |-> Zero]
NoGcd == [A |-> Zero, B |-> Zero]
NoDiv == [A |-> Zero, d |-> Zero, Q |-> <<>>, R |-> Zero, invLead |-> 0, ret |-> "none"]

\* No step-by-step call is in progress.
NotRunning ==
    /\ pc = "idle"
    /\ irr = NoIrr
    /\ pow = NoPow
    /\ gcd = NoGcd
    /\ div = NoDiv
    /\ verdict = "none"

InitBinary ==
    /\ entry = "binary"
    /\ p \in Moduli
    /\ A \in Polys(p, MaxDegA)
    /\ B \in Polys(p, MaxDegB)
    /\ k = 0
    /\ raw = <<>>

InitCtor ==
    /\ entry = "ctor"
    /\ p \in Moduli
    /\ A = Zero
    /\ B = Zero
    /\ k = 0
    /\ raw \in RawVectors(p)

InitPowX ==
    /\ entry = "powx"
    /\ p \in Moduli
    /\ A \in Polys(p, FDeg(p))
    /\ B = Zero
    /\ k \in 0..MaxK
    /\ raw = <<>>

\* Inputs of the specification of the modular inverse: a direct call of
\* InvMod(k, p), and a division over a modulus that need not be prime.
InitInvMod ==
    /\ entry = "inv"
    /\ p \in 2..MaxInvMod
    /\ A = Zero
    /\ B = Zero
    /\ k \in 0..(p - 1)
    /\ raw = <<>>

InitInvDiv ==
    /\ entry = "invdiv"
    /\ p \in 2..MaxDivMod
    /\ A \in Polys(p, MaxInvDeg)
    /\ B \in Polys(p, MaxInvDeg)
    /\ k = 0
    /\ raw = <<>>

Init ==
    /\ InitBinary \/ InitCtor \/ InitPowX
    /\ op = "idle"
    /\ res = NoResult
    /\ NotRunning

\* Poly f(c, p)
DoConstruct ==
    /\ entry = "ctor"
    /\ op = "idle"
    /\ op' = "Construct"
    /\ res' = Result(NoError, <<>>, Construct(raw, p), FALSE, 0)
    /\ UNCHANGED inputs
    /\ UNCHANGED runVars

\* A + B
DoAdd ==
    /\ entry = "binary"
    /\ op = "idle"
    /\ op' = "Add"
    /\ res' = Result(NoError, <<>>, Add(A, B, p), FALSE, 0)
    /\ UNCHANGED inputs
    /\ UNCHANGED runVars

\* A - B
DoSubtract ==
    /\ entry = "binary"
    /\ op = "idle"
    /\ op' = "Subtract"
    /\ res' = Result(NoError, <<>>, Subtract(A, B, p), FALSE, 0)
    /\ UNCHANGED inputs
    /\ UNCHANGED runVars

\* A * B
DoMultiply ==
    /\ entry = "binary"
    /\ op = "idle"
    /\ op' = "Multiply"
    /\ res' = Result(NoError, <<>>, Multiply(A, B, p), FALSE, 0)
    /\ UNCHANGED inputs
    /\ UNCHANGED runVars

\* A.DivMod(B)
DoDivMod ==
    /\ entry \in {"binary", "invdiv"}
    /\ op = "idle"
    /\ op' = "DivMod"
    /\ \E dm \in {DivMod(A, B, p)} : res' = Result(dm.err, dm.q, dm.r, FALSE, 0)
    /\ UNCHANGED inputs
    /\ UNCHANGED runVars

\* Poly::GCD(A, B)
DoGCD ==
    /\ entry = "binary"
    /\ op = "idle"
    /\ op' = "GCD"
    /\ \E g \in {GCD(A, B, p)} : res' = Result(g.err, <<>>, g.r, FALSE, 0)
    /\ UNCHANGED inputs
    /\ UNCHANGED runVars

\* Poly::PowX(k, A), for a modulus polynomial of degree >= 1
DoPowX ==
    /\ entry = "powx"
    /\ op = "idle"
    /\ Degree(A) >= 1
    /\ op' = "PowX"
    /\ \E px \in {PowX(k, A, p)} : res' = Result(px.err, <<>>, px.r, FALSE, 0)
    /\ UNCHANGED inputs
    /\ UNCHANGED runVars

\* Poly::IsIrreducible(A)
DoIsIrreducible ==
    /\ entry = "powx"
    /\ op = "idle"
    /\ op' = "IsIrreducible"
    /\ \E v \in {IsIrreducible(A, p)} : res' = Result(v.err, <<>>, <<>>, v.b, 0)
    /\ UNCHANGED inputs
    /\ UNCHANGED runVars

\* Poly::InvMod(k, p)
DoInvMod ==
    /\ entry = "inv"
    /\ op = "idle"
    /\ op' = "InvMod"
    /\ \E inv \in {InvMod(k, p)} :
          res' = Result(IF inv.ok THEN NoError ELSE NotInvertible, <<>>, <<>>, FALSE, inv.val)
    /\ UNCHANGED inputs
    /\ UNCHANGED runVars

Next ==
    \/ DoConstruct
    \/ DoAdd
    \/ DoSubtract
    \/ DoMultiply
    \/ DoDivMod
    \/ DoGCD
    \/ DoPowX
    \/ DoIsIrreducible

Spec == Init /\ [][Next]_vars

InitInv ==
    /\ InitInvMod \/ InitInvDiv
    /\ op = "idle"
    /\ res = NoResult
    /\ NotRunning

NextInv ==
    \/ DoInvMod
    \/ DoDivMod

SpecInv == InitInv /\ [][NextInv]_vars

\* ------------------------------------- IsIrreducible, statement by statement
\* One call of IsIrreducible(A) executed loop iteration by loop iteration:
\* pc names the statement about to run, and the calls of PowX, GCD and
\* DivMod keep their locals in pow, gcd and div.
InitRun ==
    /\ entry = "run"
    /\ p \in Moduli
    /\ A \in Polys(p, FDeg(p))
    /\ B = Zero
    /\ k = 0
    /\ raw = <<>>
    /\ op = "idle"
    /\ res = NoResult
    /\ pc = "irr_entry"
    /\ irr = NoIrr
    /\ pow = NoPow
    /\ gcd = NoGcd
    /\ div = NoDiv
    /\ verdict = "none"

\* The locals of PowX(e, A) before its loop.
PowEntry(e) == [k |-> e, r |-> PolyX(p), res |-> PolyOne(p)]

\* The call dividend.DivMod(d), returning to the statement ret.
DivCall(dividend, d, ret) ==
    [A |-> dividend, d |-> d, Q |-> <<>>, R |-> Zero, invLead |-> 0, ret |-> ret]

\* return b / throw e from IsIrreducible
Return(v) ==
    /\ pc' = "done"
    /\ verdict' = v

\* Lines 151-158: the degree check, then the call PowX(PowInt(p, n), f).
IrrEnter ==
    /\ pc = "irr_entry"
    /\ IF Degree(A) <= 0
       THEN /\ Return("false")
            /\ UNCHANGED <<irr, pow>>
       ELSE /\ irr' = [n |-> Degree(A), divs |-> <<>>, i |-> 0, phase |-> "test"]
            /\ pow' = PowEntry(PowInt(p, Degree(A)))
            /\ pc' = "pow_loop"
            /\ UNCHANGED verdict
    /\ UNCHANGED <<gcd, div>>
    /\ UNCHANGED callVars

\* Lines 138-142: an iteration of the loop of PowX begins with the call
\* (res * r).DivMod(mod) when k is odd, with (r * r).DivMod(mod) otherwise.
PowIter ==
    /\ pc = "pow_loop"
    /\ pow.k > 0
    /\ div' = IF pow.k % 2 = 1
              THEN DivCall(Multiply(pow.res, pow.r, p), A, "pow_mul")
              ELSE DivCall(Multiply(pow.r, pow.r, p), A, "pow_sq")
    /\ pc' = "div_entry"
    /\ UNCHANGED <<irr, pow, gcd, verdict>>
    /\ UNCHANGED callVars

\* Lines 140-142: res takes the remainder, then (r * r).DivMod(mod) is called.
PowAfterMul ==
    /\ pc = "pow_mul"
    /\ pow' = [pow EXCEPT !.res = div.R]
    /\ div' = DivCall(Multiply(pow.r, pow.r, p), A, "pow_sq")
    /\ pc' = "div_entry"
    /\ UNCHANGED <<irr, gcd, verdict>>
    /\ UNCHANGED callVars

\* Lines 142-143: r takes the remainder and k is shifted right.
PowAfterSquare ==
    /\ pc = "pow_sq"
    /\ pow' = [pow EXCEPT !.r = div.R, !.k = pow.k \div 2]
    /\ pc' = "pow_loop"
    /\ UNCHANGED <<irr, gcd, div, verdict>>
    /\ UNCHANGED callVars

\* Lines 145 and 158-163: PowX returns to the first test of IsIrreducible.
PowReturnTest ==
    /\ pc = "pow_loop"
    /\ pow.k = 0
    /\ irr.phase = "test"
    /\ IF ~IsZero(Subtract(pow.res, PolyX(p), p))
       THEN /\ Return("false")
            /\ UNCHANGED irr
       ELSE /\ irr' = [irr EXCEPT !.divs = PrimeDivisors(irr.n), !.phase = "divisors"]
            /\ pc' = "for_loop"
            /\ UNCHANGED verdict
    /\ UNCHANGED <<pow, gcd, div>>
    /\ UNCHANGED callVars

\* Lines 165-167 and 174: the for loop takes the next prime divisor q and
\* calls PowX(PowInt(p, n / q), f), or ends and true is returned.
ForLoop ==
    /\ pc = "for_loop"
    /\ IF irr.i >= Len(irr.divs)
       THEN /\ Return("true")
            /\ UNCHANGED <<irr, pow>>
       ELSE /\ irr' = [irr EXCEPT !.i = irr.i + 1]
            /\ pow' = PowEntry(PowInt(p, irr.n \div irr.divs[irr.i + 1]))
            /\ pc' = "pow_loop"
            /\ UNCHANGED verdict
    /\ UNCHANGED <<gcd, div>>
    /\ UNCHANGED callVars

\* Lines 145 and 167-169: PowX returns inside the for loop; GCD(f, h) is
\* called with h = PowX(pw, f) - x.
PowReturnDivisor ==
    /\ pc = "pow_loop"
    /\ pow.k = 0
    /\ irr.phase = "divisors"
    /\ gcd' = [A |-> A, B |-> Subtract(pow.res, PolyX(p), p)]
    /\ pc' = "gcd_loop"
    /\ UNCHANGED <<irr, pow, div, verdict>>
    /\ UNCHANGED callVars

\* Lines 123-124: an iteration of the loop of GCD begins with A.DivMod(B).
GcdIter ==
    /\ pc = "gcd_loop"
    /\ ~IsZero(gcd.B)
    /\ div' = DivCall(gcd.A, gcd.B, "gcd_ret")
    /\ pc' = "div_entry"
    /\ UNCHANGED <<irr, pow, gcd, verdict>>
    /\ UNCHANGED callVars

\* Lines 124-126: R takes the remainder, then A = B and B = R.
GcdAfterDiv ==
    /\ pc = "gcd_ret"
    /\ gcd' = [A |-> gcd.B, B |-> div.R]
    /\ pc' = "gcd_loop"
    /\ UNCHANGED <<irr, pow, div, verdict>>
    /\ UNCHANGED callVars

\* Lines 128-129 and 169-171: GCD returns the normalized A; a positive
\* degree makes IsIrreducible return false, else the for loop goes on.
GcdReturn ==
    /\ pc = "gcd_loop"
    /\ IsZero(gcd.B)
    /\ gcd' = [gcd EXCEPT !.A = Normalize(gcd.A, p)]
    /\ IF Degree(Normalize(gcd.A, p)) > 0
       THEN Return("false")
       ELSE /\ pc' = "for_loop"
            /\ UNCHANGED verdict
    /\ UNCHANGED <<irr, pow, div>>
    /\ UNCHANGED callVars

\* Lines 90-99: the zero-divisor check, the copies R and Q, the inverse of
\* the leading coefficient; either throw ends the call of IsIrreducible,
\* which catches nothing.
DivEnter ==
    /\ pc = "div_entry"
    /\ IF Degree(div.d) = 0 /\ div.d[1] = 0
       THEN /\ Return(DivisionByZero)
            /\ UNCHANGED div
       ELSE IF ~InvMod(div.d[Len(div.d)], p).ok
       THEN /\ Return(NotInvertible)
            /\ UNCHANGED div
       ELSE /\ div' = [div EXCEPT !.R = div.A,
                                  !.Q = QInit(div.A, div.d),
                                  !.invLead = InvMod(div.d[Len(div.d)], p).val]
            /\ pc' = "div_loop"
            /\ UNCHANGED verdict
    /\ UNCHANGED <<irr, pow, gcd>>
    /\ UNCHANGED callVars

\* Lines 101-113: one iteration of the loop of DivMod.
DivIter ==
    /\ pc = "div_loop"
    /\ DivCond(div.R, div.d)
    /\ \E s \in {DivStep(div.R, div.Q, div.d, div.invLead, p)} :
          div' = [div EXCEPT !.R = s.R, !.Q = s.Q]
    /\ pc' = "div_loop"
    /\ UNCHANGED <<irr, pow, gcd, verdict>>
    /\ UNCHANGED callVars

\* Lines 115-117: the loop has ended; Q and R are normalized and returned.
DivReturn ==
    /\ pc = "div_loop"
    /\ ~DivCond(div.R, div.d)
    /\ div' = [div EXCEPT !.R = Normalize(div.R, p), !.Q = Normalize(div.Q, p)]
    /\ pc' = div.ret
    /\ UNCHANGED <<irr, pow, gcd, verdict>>
    /\ UNCHANGED callVars

NextRun ==
    \/ IrrEnter
    \/ PowIter
    \/ PowAfterMul
    \/ PowAfterSquare
    \/ PowReturnTest
    \/ ForLoop
    \/ PowReturnDivisor
    \/ GcdIter
    \/ GcdAfterDiv
    \/ GcdReturn
    \/ DivEnter
    \/ DivIter
    \/ DivReturn

\* The call runs on one thread that nothing suspends: a statement that can
\* run does run.
SpecRun == InitRun /\ [][NextRun]_vars /\ WF_vars(NextRun)

\* ------------------------------------------------------------- properties

\* C1: over a prime modulus, IsIrreducible(f) is true exactly when f has
\* degree >= 1 and is no product of two polynomials of positive degree; it
\* is false for the zero polynomial and the non-zero constants.
C1_IrreducibleIffNoFactorisation ==
    (op = "IsIrreducible" /\ IsPrime(p)) =>
        /\ res.err = NoError
        /\ res.b = (Degree(A) >= 1 /\ ~Reducible(A, p))

\* The same statement for the degrees 2 and above, and degree <= 0.
IrreducibleFromDegreeTwo ==
    (op = "IsIrreducible" /\ IsPrime(p) /\ Degree(A) # 1) =>
        /\ res.err = NoError
        /\ res.b = (Degree(A) >= 1 /\ ~Reducible(A, p))

\* C2: over a prime modulus and for a non-zero divisor B, DivMod(A, B)
\* returns (Q, R) with Q*B + R = A, computed with the program's Multiply
\* and Add, and R zero or of degree below Degree(B).
C2_DivModIdentity ==
    (op = "DivMod" /\ entry = "binary" /\ IsPrime(p) /\ ~IsZero(B)) =>
        /\ res.err = NoError
        /\ Add(Multiply(res.q, B, p), res.r, p) = A
        /\ IsZero(res.r) \/ Degree(res.r) < Degree(B)

\* A division whose loop ran at least twice and left a non-zero remainder.
C2_Witness ==
    /\ op = "DivMod" /\ entry = "binary" /\ IsPrime(p)
    /\ Degree(B) >= 1 /\ Degree(res.q) >= 1 /\ res.q[1] # 0
    /\ res.err = NoError /\ ~IsZero(res.r)

\* C3: every polynomial an operation returns has at least one coefficient:
\* the constructor's result, the results of Add, Subtract, Multiply, GCD
\* and PowX, and both the quotient and the remainder of DivMod.
C3_NeverEmpty ==
    (op # "idle" /\ op # "IsIrreducible" /\ res.err = NoError) =>
        /\ Len(res.r) >= 1
        /\ op = "DivMod" => Len(res.q) >= 1

\* C4: every non-empty polynomial returned by the constructor, Add,
\* Subtract, Multiply, DivMod (the remainder), GCD and PowX is canonical:
\* coefficients in [0, p-1] and a non-zero top coefficient unless it is
\* <<0>>; and it is the vector obtained by reducing every coefficient
\* modulo p and then stripping the zero high-order coefficients.
C4_Canonical ==
    (op # "idle" /\ op # "IsIrreducible" /\ res.err = NoError /\ res.r # <<>>) =>
        /\ Canonical(res.r, p)
        /\ op = "Construct" => res.r = RefNormalize(raw, p)
        /\ op = "Add" => res.r = RefAdd(A, B, p)
        /\ op = "Subtract" => res.r = RefSub(A, B, p)
        /\ op = "Multiply" => res.r = RefMul(A, B, p)

\* The constructor was given a negative coefficient below a non-zero
\* multiple of p, and dropped the latter.
C4_Witness ==
    /\ op = "Construct"
    /\ Len(raw) >= 2 /\ raw[1] < 0
    /\ raw[Len(raw)] # 0 /\ raw[Len(raw)] % p = 0
    /\ Len(res.r) < Len(raw) /\ res.r[1] > 0

\* C5: for every A and every modulus, DivMod(A, zero) throws "division by
\* zero polynomial", never "element is not invertible", returns no (Q, R),
\* and leaves A and the divisor as they were.
C5_DivisionByZero ==
    /\ []((op = "DivMod" /\ IsZero(B)) =>
            res = Result(DivisionByZero, <<>>, <<>>, FALSE, 0))
    /\ [][op' = "DivMod" => (A' = A /\ B' = B /\ p' = p)]_vars

\* A division by the zero polynomial over a composite modulus.
C5_Witness ==
    /\ op = "DivMod" /\ IsZero(B) /\ ~IsPrime(p) /\ Degree(A) >= 1
    /\ res.err = DivisionByZero

\* C6: over a prime modulus and for f of degree >= 1, PowX(k, f) is the
\* remainder of x^k on division by f; PowX(0, f) is the constant 1, and the
\* degree of the result is below Degree(f).
C6_PowX ==
    (op = "PowX" /\ IsPrime(p)) =>
        /\ res.err = NoError
        /\ res.r = RefPowX(k, A, p)
        /\ Degree(res.r) < Degree(A)
        /\ k = 0 => res.r = <<1>>

\* An exponent above the degree of f, so that x^k was reduced, with a
\* result that is no constant.
C6_Witness ==
    /\ op = "PowX" /\ IsPrime(p) /\ p > 2
    /\ k > Degree(A) + 1 /\ Degree(A) >= 2
    /\ res.err = NoError /\ Degree(res.r) >= 1

\* C7: (A + B) - B has the coefficient vector of A, whatever the lengths
\* of A and B, and neither operation changes A or B.
C7_AddThenSubtract ==
    /\ []((op = "Add" /\ entry = "binary") => Subtract(res.r, B, p) = A)
    /\ [][op' \in {"Add", "Subtract"} => (A' = A /\ B' = B /\ p' = p)]_vars

\* A sum shorter than B: the subtraction has to resize it again.
C7_Witness ==
    /\ op = "Add" /\ entry = "binary"
    /\ ~IsZero(B) /\ Len(res.r) < Len(B)
    /\ Subtract(res.r, B, p) = A

\* C9: over a prime modulus and for A, B not both zero, GCD(A, B) is a
\* non-zero polynomial that divides A and B and that every common divisor
\* of A and B divides; GCD(A, zero) is A itself.
C9_GCD ==
    (op = "GCD" /\ IsPrime(p) /\ ~(IsZero(A) /\ IsZero(B))) =>
        /\ res.err = NoError
        /\ ~IsZero(res.r)
        /\ Divides(res.r, A, p)
        /\ Divides(res.r, B, p)
        /\ \A c \in Polys(p, MaxDegA) :
              (~IsZero(c) /\ Divides(c, A, p) /\ Divides(c, B, p)) => Divides(c, res.r, p)
        /\ IsZero(B) => res.r = A

\* A common divisor of positive degree, below the degree of A, that is not
\* monic.
C9_Witness ==
    /\ op = "GCD" /\ IsPrime(p) /\ ~IsZero(B)
    /\ res.err = NoError
    /\ Degree(res.r) >= 1 /\ Degree(res.r) < Degree(A)
    /\ res.r[Len(res.r)] # 1

\* C10: for p >= 2 and a in [0, p-1], InvMod(a, p) returns the one r in
\* [0, p-1] with (a * r) mod p = 1 when gcd(a, p) = 1, and throws "element
\* is not invertible" otherwise; DivMod(A, d) throws it exactly when d is
\* non-zero and its leading coefficient shares a factor with p.
C10_InvMod ==
    /\ op = "InvMod" =>
          IF RefGcdInt(k, p) = 1
          THEN /\ res.err = NoError
               /\ res.n \in 0..(p - 1)
               /\ (k * res.n) % p = 1
               /\ \A r \in 0..(p - 1) : (k * r) % p = 1 => r = res.n
          ELSE res.err = NotInvertible
    /\ (op = "DivMod" /\ entry = "invdiv") =>
          (res.err = NotInvertible) =
              (~IsZero(B) /\ RefGcdInt(B[Len(B)], p) # 1)

\* An inverse of a unit of a composite modulus that is not the unit itself.
C10_Witness ==
    /\ op = "InvMod" /\ ~IsPrime(p)
    /\ res.err = NoError /\ res.n # k /\ (k * res.n) % p = 1

\* The distinct prime divisors of n, by definition.
RefPrimeDivisors(n) == {q \in 2..n : IsPrime(q) /\ n % q = 0}

\* The step-by-step call ends with the verdict the operator IsIrreducible
\* computes.
RunAgrees ==
    pc = "done" =>
        verdict = (IF IsIrreducible(A, p).err # NoError THEN IsIrreducible(A, p).err
                   ELSE IF IsIrreducible(A, p).b THEN "true" ELSE "false")

\* C8: over a prime modulus a call of IsIrreducible(f) ends, with a boolean
\* verdict and without throwing: an iteration of DivMod's loop lowers
\* Degree(R) or makes R zero, an iteration of GCD's loop lowers Degree(B) or
\* makes B zero, an iteration of PowX's loop halves k, and the for loop
\* runs once per distinct prime divisor of Degree(f).
C8_Terminates ==
    /\ <>(pc = "done")
    /\ [](IsPrime(p) => verdict \in {"none", "true", "false"})
    /\ []((pc = "done" /\ IsPrime(p)) => verdict \in {"true", "false"})
    /\ [][(IsPrime(p) /\ pc = "div_loop" /\ pc' = "div_loop") =>
            (IsZero(div'.R) \/ Degree(div'.R) < Degree(div.R))]_vars
    /\ [][(IsPrime(p) /\ pc = "gcd_ret") =>
            (IsZero(gcd'.B) \/ Degree(gcd'.B) < Degree(gcd.B))]_vars
    /\ [][pc = "pow_sq" => (pow'.k = pow.k \div 2 /\ pow'.k < pow.k)]_vars
    /\ [](irr.i <= Cardinality(RefPrimeDivisors(Degree(A))))
    /\ []((pc = "done" /\ verdict = "true") =>
            irr.i = Cardinality(RefPrimeDivisors(Degree(A))))

\* A call that went twice round the for loop, through PowX, GCD and DivMod,
\* and returned true.
C8_Witness ==
    /\ pc = "done" /\ verdict = "true" /\ IsPrime(p)
    /\ irr.i = 2 /\ Degree(gcd.A) = 0 /\ div.ret = "gcd_ret"

====
